---- MODULE Spec2Model ----
(***************************************************************************)
(* InteractOutsideDirective (ngx-interact-outside): the directive's        *)
(* private fields, its lifecycle hooks, its four input setters, the        *)
(* listeners it keeps on Renderer2, and the three event handlers.          *)
(***************************************************************************)
EXTENDS Integers, Sequences, FiniteSets, TLC

\* ------------------------------------------------------------------ bounds
\* Cap on the two counters of the consuming component.
MaxCount == 2
\* Longest changedTouches list of a dispatched touchstart event.
MaxTouches == 2

\* --------------------------------------------------------------- the DOM
\* The tree of the test component, under the document, with one more level
\* below the host's child:
\*   document > parentDiv > { firstSiblingDiv, targetDiv > firstChildDiv > nestedDiv }
Nodes == {"document", "parentDiv", "firstSiblingDiv", "targetDiv", "firstChildDiv", "nestedDiv"}

\* A null / undefined node reference (event.target, relatedTarget, toElement).
NoNode == "null"

parentNode(n) ==
    CASE n = "parentDiv"       -> "document"
      [] n = "firstSiblingDiv" -> "parentDiv"
      [] n = "targetDiv"       -> "parentDiv"
      [] n = "firstChildDiv"   -> "targetDiv"
      [] n = "nestedDiv"       -> "firstChildDiv"
      [] OTHER                 -> NoNode

\* Node.contains: reflexive, transitive over parentNode; false for null.
RECURSIVE contains(_, _)
contains(element, node) ==
    IF node = NoNode THEN FALSE
    ELSE IF node = element THEN TRUE
    ELSE contains(element, parentNode(node))

\* The element the directive is bound to (elementRef.nativeElement).
htmlElement == "targetDiv"

\* The nodes of the tree by where they lie relative to the host, written out.
OutsideNodes == {"document", "parentDiv", "firstSiblingDiv"}
InsideNodes == {"targetDiv", "firstChildDiv", "nestedDiv"}

\* ------------------------------------------------------------ the events
\* One record shape for the three event types; the fields an event type does
\* not have keep their defaults.  A touch point is represented by its target
\* (NoNode: a touch without target).
BaseEvent ==
    [type |-> "none", target |-> NoNode, bubbles |-> FALSE,
     hasChangedTouches |-> FALSE, changedTouches |-> <<>>, touches |-> <<>>,
     relatedTarget |-> NoNode, toElement |-> NoNode,
     defaultPrevented |-> FALSE, propagationStopped |-> FALSE]

NoEvent == BaseEvent

\* mousedown bubbles; a target-less event object is included because
\* handleMouseDown guards against it.
MouseDownEvents ==
    {[BaseEvent EXCEPT !.type = "mousedown", !.target = t, !.bubbles = TRUE] :
        t \in Nodes \cup {NoNode}}

TouchPoints == {"targetDiv", "firstSiblingDiv", NoNode}

RECURSIVE SeqsUpTo(_, _)
SeqsUpTo(S, n) ==
    IF n = 0 THEN {<<>>}
    ELSE LET shorter == SeqsUpTo(S, n - 1)
         IN shorter \cup {Append(s, x) : s \in {q \in shorter : Len(q) = n - 1}, x \in S}

\* touchstart bubbles; changedTouches may be missing, empty, or hold up to
\* MaxTouches points; touches is the list of all active points (possibly stale).
ChangedTouchLists ==
    {[has |-> FALSE, list |-> <<>>]} \cup
    {[has |-> TRUE, list |-> c] : c \in SeqsUpTo(TouchPoints, MaxTouches)}

TouchStartEvents ==
    {[BaseEvent EXCEPT !.type = "touchstart", !.target = t, !.bubbles = TRUE,
                       !.hasChangedTouches = c.has, !.changedTouches = c.list,
                       !.touches = s] :
        t \in {"parentDiv"},
        c \in ChangedTouchLists,
        s \in {<<>>, <<"targetDiv">>}}

\* mouseleave does not bubble when the browser fires it; the test suite
\* builds it with bubbles: true, so both are dispatched.
MouseLeaveEvents ==
    {[BaseEvent EXCEPT !.type = "mouseleave", !.target = t, !.bubbles = b,
                       !.relatedTarget = r, !.toElement = o] :
        t \in {"parentDiv", "firstSiblingDiv", "targetDiv", "firstChildDiv"},
        b \in BOOLEAN,
        r \in {NoNode, "firstSiblingDiv"}, o \in {NoNode, "firstSiblingDiv"}}

\* ------------------------------------------------------------- the state
VARIABLES
    isListening,              \* _isListening
    listenMouseDownOutside,   \* _listenMouseDownOutside
    listenTouchStartOutside,  \* _listenTouchStartOutside
    listenMouseLeave,         \* _listenMouseLeave
    isInitialized,
    mouseDownListener,        \* unlisten handle, or NoListener
    touchStartListener,
    mouseLeaveListener,
    rendererListeners,        \* the listeners live on Renderer2
    lifecycle,                \* which lifecycle hooks Angular has called
    masterSwitch,             \* history of isListening writes
    lastEvent,                \* the event this step dispatched, or NoEvent
    emitted,                  \* the signals this step emitted, in order
    interactOutsideCount,     \* consumer's count of interactOutsideEvent
    mouseLeaveCount,          \* consumer's count of mouseLeaveEvent
    lastOp,                   \* the operation this step performed
    configWritten,            \* whether any input setter has been called
    observed,                 \* what this step's currentState read returned
    script,                   \* steps of the end-to-end scenario done so far
    qualifyingOutside,        \* qualifying mousedown / touchstart events dispatched
    qualifyingLeave,          \* qualifying mouseleave events dispatched
    repeated                  \* this step's call asked for nothing new

config == <<isListening, listenMouseDownOutside, listenTouchStartOutside, listenMouseLeave>>
slots == <<mouseDownListener, touchStartListener, mouseLeaveListener>>
counts == <<interactOutsideCount, mouseLeaveCount>>
history == <<lastOp, configWritten, observed, script, repeated>>
qualifying == <<qualifyingOutside, qualifyingLeave>>
vars == <<config, isInitialized, slots, rendererListeners, lifecycle, masterSwitch,
          lastEvent, emitted, counts, history, qualifying>>

\* A listener reference that holds no function (undefined / null).
NoListener == 0

\* ------------------------------------------------------------- Renderer2
\* renderer.listen(target, eventName, callback): registers the callback and
\* returns the function that removes it; the handle is the listener's id.
FreshId(registry) ==
    CHOOSE i \in 1..(Cardinality(registry) + 1) : \A r \in registry : r.id # i

listen(registry, target, eventName, handler) ==
    LET id == FreshId(registry)
    IN [registry |-> registry \cup
                        {[id |-> id, target |-> target, eventName |-> eventName,
                          handler |-> handler]},
        handle |-> id]

\* Calling the function listen() returned.
unlisten(registry, handle) == {r \in registry : r.id # handle}

\* ------------------------------------------------------------ the signals
Signal(channel, event) == [channel |-> channel, payload |-> event]

\* Variant: no check that the event has a target.
handleMouseDown_NoTargetCheck(event) ==
    IF ~contains(htmlElement, event.target)
    THEN <<Signal("interactOutsideEvent", event)>>
    ELSE <<>>

\* Variant: compares the target with the host instead of asking contains().
handleMouseDown_TargetIsHost(event) ==
    IF event.target # NoNode
    THEN IF event.target # htmlElement
         THEN <<Signal("interactOutsideEvent", event)>>
         ELSE <<>>
    ELSE <<>>

handleMouseDown(event) ==
    IF event.target # NoNode
    THEN IF ~contains(htmlElement, event.target)
         THEN <<Signal("interactOutsideEvent", event)>>
         ELSE <<>>
    ELSE <<>>

\* Variant: emits the touch point instead of the event.
handleTouchStart_EmitsTouch(event) ==
    IF event.hasChangedTouches /\ Len(event.changedTouches) > 0
    THEN LET touch == event.changedTouches[1]
         IN IF touch # NoNode
            THEN IF ~contains(htmlElement, touch)
                 THEN <<Signal("interactOutsideEvent",
                               [BaseEvent EXCEPT !.type = "touch", !.target = touch])>>
                 ELSE <<>>
            ELSE <<>>
    ELSE <<>>

\* Variant: reads the first entry of touches (all active points) when there is one.
handleTouchStart_ActiveTouches(event) ==
    IF event.hasChangedTouches /\ Len(event.changedTouches) > 0
    THEN LET touch == IF Len(event.touches) > 0 THEN event.touches[1]
                      ELSE event.changedTouches[1]
         IN IF touch # NoNode
            THEN IF ~contains(htmlElement, touch)
                 THEN <<Signal("interactOutsideEvent", event)>>
                 ELSE <<>>
            ELSE <<>>
    ELSE <<>>

\* Uses changedTouches[0] only.
handleTouchStart(event) ==
    IF event.hasChangedTouches /\ Len(event.changedTouches) > 0
    THEN LET touch == event.changedTouches[1]
         IN IF touch # NoNode
            THEN IF ~contains(htmlElement, touch)
                 THEN <<Signal("interactOutsideEvent", event)>>
                 ELSE <<>>
            ELSE <<>>
    ELSE <<>>

\* Variant: forwards every mouseleave.
handleMouseLeave_NoFilter(event) ==
    <<Signal("mouseLeaveEvent", event)>>

\* Variant: tests relatedTarget only.
handleMouseLeave_RelatedTargetOnly(event) ==
    IF event.relatedTarget # NoNode
    THEN <<Signal("mouseLeaveEvent", event)>>
    ELSE <<>>

handleMouseLeave(event) ==
    IF event.relatedTarget # NoNode \/ event.toElement # NoNode
    THEN <<Signal("mouseLeaveEvent", event)>>
    ELSE <<>>

\* The callback a listener was registered with.
Invoke(handler, event) ==
    CASE handler = "handleMouseDown"  -> handleMouseDown(event)
      [] handler = "handleTouchStart" -> handleTouchStart(event)
      [] handler = "handleMouseLeave" -> handleMouseLeave(event)

\* Variant: the callback calls event.preventDefault().
Touched_PreventDefault(handler, event) ==
    [event EXCEPT !.defaultPrevented = TRUE]

\* What a callback does to the event object it is given: none of the three
\* handlers calls preventDefault or stopPropagation, or assigns to the event.
Touched(handler, event) == event

\* --------------------------------------------------- the listener fields
\* The three listener references together with the renderer's registry.
Listeners(md, ts, ml, registry) ==
    [mouseDownListener |-> md, touchStartListener |-> ts,
     mouseLeaveListener |-> ml, registry |-> registry]

CurrentListeners ==
    Listeners(mouseDownListener, touchStartListener, mouseLeaveListener, rendererListeners)

\* Variant: calls the retained functions but keeps the references.
clearListeners_KeepRefs(l) ==
    LET r1 == IF l.mouseDownListener # NoListener
              THEN unlisten(l.registry, l.mouseDownListener) ELSE l.registry
        r2 == IF l.touchStartListener # NoListener
              THEN unlisten(r1, l.touchStartListener) ELSE r1
        r3 == IF l.mouseLeaveListener # NoListener
              THEN unlisten(r2, l.mouseLeaveListener) ELSE r2
    IN [l EXCEPT !.registry = r3]

\* Variant: the mouseleave listener is neither removed nor forgotten.
clearListeners_SkipMouseLeave(l) ==
    LET r1 == IF l.mouseDownListener # NoListener
              THEN unlisten(l.registry, l.mouseDownListener) ELSE l.registry
        r2 == IF l.touchStartListener # NoListener
              THEN unlisten(r1, l.touchStartListener) ELSE r1
    IN Listeners(NoListener, NoListener, l.mouseLeaveListener, r2)

\* Calls each retained function (if any), then nulls the three references.
clearListeners(l) ==
    LET r1 == IF l.mouseDownListener # NoListener
              THEN unlisten(l.registry, l.mouseDownListener) ELSE l.registry
        r2 == IF l.touchStartListener # NoListener
              THEN unlisten(r1, l.touchStartListener) ELSE r1
        r3 == IF l.mouseLeaveListener # NoListener
              THEN unlisten(r2, l.mouseLeaveListener) ELSE r2
    IN Listeners(NoListener, NoListener, NoListener, r3)

\* The body of `if (this._isListening) { ... }`: one renderer.listen per
\* enabled flag, the returned function kept in the matching reference.
installListeners(c, listening, mouseDown, touchStart, mouseLeave, leaveTarget) ==
    LET a1 == IF listening /\ mouseDown
              THEN LET n == listen(c.registry, "document", "mousedown", "handleMouseDown")
                   IN [c EXCEPT !.mouseDownListener = n.handle, !.registry = n.registry]
              ELSE c
        a2 == IF listening /\ touchStart
              THEN LET n == listen(a1.registry, "document", "touchstart", "handleTouchStart")
                   IN [a1 EXCEPT !.touchStartListener = n.handle, !.registry = n.registry]
              ELSE a1
        a3 == IF listening /\ mouseLeave
              THEN LET n == listen(a2.registry, leaveTarget, "mouseleave", "handleMouseLeave")
                   IN [a2 EXCEPT !.mouseLeaveListener = n.handle, !.registry = n.registry]
              ELSE a2
    IN a3

\* Variant: installs without looking at _isListening.
updateListeners_IgnoreListening(l, listening, mouseDown, touchStart, mouseLeave) ==
    installListeners(clearListeners(l), TRUE, mouseDown, touchStart, mouseLeave, htmlElement)

\* Variant: the touchstart listener is guarded by the mousedown flag.
updateListeners_TouchFollowsMouseDown(l, listening, mouseDown, touchStart, mouseLeave) ==
    installListeners(clearListeners(l), listening, mouseDown, mouseDown, mouseLeave, htmlElement)

\* Variant: installs without clearing first.
updateListeners_NoClear(l, listening, mouseDown, touchStart, mouseLeave) ==
    installListeners(l, listening, mouseDown, touchStart, mouseLeave, htmlElement)

\* Variant: the mouseleave listener is registered on the document.
updateListeners_LeaveOnDocument(l, listening, mouseDown, touchStart, mouseLeave) ==
    installListeners(clearListeners(l), listening, mouseDown, touchStart, mouseLeave, "document")

\* Clear, then (only when listening) install one listener per enabled flag;
\* the mouseleave listener goes on the host element.
updateListeners(l, listening, mouseDown, touchStart, mouseLeave) ==
    installListeners(clearListeners(l), listening, mouseDown, touchStart, mouseLeave, htmlElement)

\* Variant: re-derives whether or not ngOnInit has run.
afterInputWrite_NoInitCheck(l, initialized, listening, mouseDown, touchStart, mouseLeave) ==
    updateListeners(l, listening, mouseDown, touchStart, mouseLeave)

\* The tail of every input setter: if (this.isInitialized) updateListeners().
afterInputWrite(l, initialized, listening, mouseDown, touchStart, mouseLeave) ==
    IF initialized
    THEN updateListeners(l, listening, mouseDown, touchStart, mouseLeave)
    ELSE l

SetListeners(l) ==
    /\ mouseDownListener' = l.mouseDownListener
    /\ touchStartListener' = l.touchStartListener
    /\ mouseLeaveListener' = l.mouseLeaveListener
    /\ rendererListeners' = l.registry

\* Variant: listenersCleared is true as soon as one reference is empty.
currentState_AnyCleared ==
    [isListening |-> isListening,
     listenMouseDownOutside |-> listenMouseDownOutside,
     listenTouchStartOutside |-> listenTouchStartOutside,
     listenMouseLeave |-> listenMouseLeave,
     listenersCleared |-> (mouseDownListener = NoListener
                           \/ touchStartListener = NoListener
                           \/ mouseLeaveListener = NoListener)]

\* The read-only snapshot the currentState getter returns.
currentState ==
    [isListening |-> isListening,
     listenMouseDownOutside |-> listenMouseDownOutside,
     listenTouchStartOutside |-> listenTouchStartOutside,
     listenMouseLeave |-> listenMouseLeave,
     listenersCleared |-> (mouseDownListener = NoListener
                           /\ touchStartListener = NoListener
                           /\ mouseLeaveListener = NoListener)]

\* ------------------------------------------------- the end-to-end scenario
\* One call on the directive or one dispatched event.
Step(op, value, event) == [op |-> op, value |-> value, event |-> event]

MouseDownOn(node) ==
    [BaseEvent EXCEPT !.type = "mousedown", !.target = node, !.bubbles = TRUE]
TouchStartOn(node) ==
    [BaseEvent EXCEPT !.type = "touchstart", !.target = "parentDiv", !.bubbles = TRUE,
                      !.hasChangedTouches = TRUE, !.changedTouches = <<node>>]
MouseLeaveTo(node) ==
    [BaseEvent EXCEPT !.type = "mouseleave", !.target = htmlElement,
                      !.relatedTarget = node]

\* All four flags true at activation; mousedown on ancestor, sibling, host,
\* descendant, sibling; touchstart on the sibling; leave towards the sibling;
\* isListening = false and a mousedown; teardown and a mousedown.
Scenario ==
    << Step("listenTouchStartOutside", TRUE, NoEvent),
       Step("listenMouseLeave", TRUE, NoEvent),
       Step("ngOnInit", FALSE, NoEvent),
       Step("dispatchEvent", FALSE, MouseDownOn("document")),
       Step("dispatchEvent", FALSE, MouseDownOn("firstSiblingDiv")),
       Step("dispatchEvent", FALSE, MouseDownOn("targetDiv")),
       Step("dispatchEvent", FALSE, MouseDownOn("firstChildDiv")),
       Step("dispatchEvent", FALSE, MouseDownOn("firstSiblingDiv")),
       Step("dispatchEvent", FALSE, TouchStartOn("firstSiblingDiv")),
       Step("dispatchEvent", FALSE, MouseLeaveTo("firstSiblingDiv")),
       Step("isListening", FALSE, NoEvent),
       Step("dispatchEvent", FALSE, MouseDownOn("firstSiblingDiv")),
       Step("ngOnDestroy", FALSE, NoEvent),
       Step("dispatchEvent", FALSE, MouseDownOn("firstSiblingDiv")) >>

\* The value of script once the run has left the scenario.
OffScript == Len(Scenario) + 1

\* The step continues the scenario from where the run stands.
OnScript(step) == script < Len(Scenario) /\ Scenario[script + 1] = step

InputSetters ==
    {"isListening", "listenMouseDownOutside", "listenTouchStartOutside", "listenMouseLeave"}

\* The value the field behind an input setter holds.
Stored(op) ==
    CASE op = "isListening"             -> isListening
      [] op = "listenMouseDownOutside"  -> listenMouseDownOutside
      [] op = "listenTouchStartOutside" -> listenTouchStartOutside
      [] op = "listenMouseLeave"        -> listenMouseLeave

\* Bookkeeping of every step: what was called, with what; repeated marks a
\* setter given the value its field already holds, and an ngOnDestroy that
\* directly follows an ngOnDestroy.
Called(op, value, event) ==
    /\ lastOp' = op
    /\ configWritten' = (configWritten \/ op \in InputSetters)
    /\ script' = IF OnScript(Step(op, value, event)) THEN script + 1 ELSE OffScript
    /\ observed' = IF op = "currentState" THEN <<currentState>> ELSE <<>>
    /\ repeated' = IF op \in InputSetters THEN value = Stored(op)
                   ELSE op = "ngOnDestroy" /\ lastOp = "ngOnDestroy"

\* A step that dispatches no event emits nothing.
NoDispatch ==
    /\ lastEvent' = NoEvent
    /\ emitted' = <<>>
    /\ UNCHANGED <<counts, qualifying>>

\* ---------------------------------------------------------------- Init
\* Variant: _listenTouchStartOutside initialised to true.
Init_TouchStartDefaultTrue ==
    /\ isListening = TRUE
    /\ listenMouseDownOutside = TRUE
    /\ listenTouchStartOutside = TRUE
    /\ listenMouseLeave = FALSE
    /\ isInitialized = FALSE
    /\ mouseDownListener = NoListener
    /\ touchStartListener = NoListener
    /\ mouseLeaveListener = NoListener
    /\ rendererListeners = {}
    /\ lifecycle = "constructed"
    /\ masterSwitch = "initial"
    /\ lastEvent = NoEvent
    /\ emitted = <<>>
    /\ interactOutsideCount = 0
    /\ mouseLeaveCount = 0
    /\ lastOp = "constructor"
    /\ configWritten = FALSE
    /\ observed = <<>>
    /\ script = 0
    /\ qualifyingOutside = 0
    /\ qualifyingLeave = 0
    /\ repeated = FALSE

Init ==
    /\ isListening = TRUE
    /\ listenMouseDownOutside = TRUE
    /\ listenTouchStartOutside = FALSE
    /\ listenMouseLeave = FALSE
    /\ isInitialized = FALSE
    /\ mouseDownListener = NoListener
    /\ touchStartListener = NoListener
    /\ mouseLeaveListener = NoListener
    /\ rendererListeners = {}
    /\ lifecycle = "constructed"
    /\ masterSwitch = "initial"
    /\ lastEvent = NoEvent
    /\ emitted = <<>>
    /\ interactOutsideCount = 0
    /\ mouseLeaveCount = 0
    /\ lastOp = "constructor"
    /\ configWritten = FALSE
    /\ observed = <<>>
    /\ script = 0
    /\ qualifyingOutside = 0
    /\ qualifyingLeave = 0
    /\ repeated = FALSE

\* ------------------------------------------------------ lifecycle hooks
\* Variant: sets isInitialized without deriving the listeners.
ngOnInit_FlagOnly ==
    /\ lifecycle = "constructed"
    /\ isInitialized' = TRUE
    /\ lifecycle' = "initialized"
    /\ NoDispatch
    /\ Called("ngOnInit", FALSE, NoEvent)
    /\ UNCHANGED <<config, masterSwitch, slots, rendererListeners>>

\* Angular calls ngOnInit once, after construction and before ngOnDestroy.
ngOnInit ==
    /\ lifecycle = "constructed"
    /\ isInitialized' = TRUE
    /\ SetListeners(updateListeners(CurrentListeners, isListening, listenMouseDownOutside,
                                    listenTouchStartOutside, listenMouseLeave))
    /\ lifecycle' = "initialized"
    /\ NoDispatch
    /\ Called("ngOnInit", FALSE, NoEvent)
    /\ UNCHANGED <<config, masterSwitch>>

\* Variant: teardown also writes _isListening = false.
ngOnDestroy_StopsListening ==
    /\ SetListeners(clearListeners(CurrentListeners))
    /\ isListening' = FALSE
    /\ lifecycle' = "destroyed"
    /\ NoDispatch
    /\ Called("ngOnDestroy", FALSE, NoEvent)
    /\ UNCHANGED <<listenMouseDownOutside, listenTouchStartOutside, listenMouseLeave,
                   isInitialized, masterSwitch>>

\* Callable in any state, repeatedly; leaves isInitialized as it is.
ngOnDestroy ==
    /\ SetListeners(clearListeners(CurrentListeners))
    /\ lifecycle' = "destroyed"
    /\ NoDispatch
    /\ Called("ngOnDestroy", FALSE, NoEvent)
    /\ UNCHANGED <<config, isInitialized, masterSwitch>>

\* --------------------------------------------------------- input setters
\* masterSwitch: "off" once an initialized directive's isListening is written
\* false, "offTouched" when a listen* flag is written while off, "resumed"
\* when isListening is written true straight from "off".
SetIsListening(value) ==
    /\ isListening' = value
    /\ SetListeners(afterInputWrite(CurrentListeners, isInitialized, value,
                                    listenMouseDownOutside, listenTouchStartOutside,
                                    listenMouseLeave))
    /\ masterSwitch' = IF ~isInitialized THEN masterSwitch
                       ELSE IF ~value THEN "off"
                       ELSE IF masterSwitch = "off" THEN "resumed"
                       ELSE IF masterSwitch = "resumed" THEN "resumed"
                       ELSE "initial"
    /\ NoDispatch
    /\ Called("isListening", value, NoEvent)
    /\ UNCHANGED <<listenMouseDownOutside, listenTouchStartOutside, listenMouseLeave,
                   isInitialized, lifecycle>>

FlagWritten ==
    masterSwitch' = IF masterSwitch = "off" \/ masterSwitch = "offTouched"
                    THEN "offTouched" ELSE "initial"

SetListenMouseDownOutside(value) ==
    /\ listenMouseDownOutside' = value
    /\ SetListeners(afterInputWrite(CurrentListeners, isInitialized, isListening,
                                    value, listenTouchStartOutside, listenMouseLeave))
    /\ FlagWritten
    /\ NoDispatch
    /\ Called("listenMouseDownOutside", value, NoEvent)
    /\ UNCHANGED <<isListening, listenTouchStartOutside, listenMouseLeave,
                   isInitialized, lifecycle>>

\* Variant: the touchstart setter also overwrites _listenMouseDownOutside.
SetListenTouchStartOutside_AlsoMouseDown(value) ==
    /\ listenTouchStartOutside' = value
    /\ listenMouseDownOutside' = value
    /\ SetListeners(afterInputWrite(CurrentListeners, isInitialized, isListening,
                                    value, value, listenMouseLeave))
    /\ FlagWritten
    /\ NoDispatch
    /\ Called("listenTouchStartOutside", value, NoEvent)
    /\ UNCHANGED <<isListening, listenMouseLeave, isInitialized, lifecycle>>

SetListenTouchStartOutside(value) ==
    /\ listenTouchStartOutside' = value
    /\ SetListeners(afterInputWrite(CurrentListeners, isInitialized, isListening,
                                    listenMouseDownOutside, value, listenMouseLeave))
    /\ FlagWritten
    /\ NoDispatch
    /\ Called("listenTouchStartOutside", value, NoEvent)
    /\ UNCHANGED <<isListening, listenMouseDownOutside, listenMouseLeave,
                   isInitialized, lifecycle>>

SetListenMouseLeave(value) ==
    /\ listenMouseLeave' = value
    /\ SetListeners(afterInputWrite(CurrentListeners, isInitialized, isListening,
                                    listenMouseDownOutside, listenTouchStartOutside, value))
    /\ FlagWritten
    /\ NoDispatch
    /\ Called("listenMouseLeave", value, NoEvent)
    /\ UNCHANGED <<isListening, listenMouseDownOutside, listenTouchStartOutside,
                   isInitialized, lifecycle>>

\* ------------------------------------------------------ the state query
\* get currentState(): returns the snapshot and assigns nothing.
ReadCurrentState ==
    /\ NoDispatch
    /\ Called("currentState", FALSE, NoEvent)
    /\ UNCHANGED <<config, isInitialized, slots, rendererListeners, lifecycle, masterSwitch>>

\* ------------------------------------------------------- event dispatch
\* A listener registered on `target` sees the event when it is dispatched on
\* that target, or bubbles up to it from a node the target contains; an event
\* object without a target is handed to the document-level listeners.
Delivered(r, event) ==
    /\ r.eventName = event.type
    /\ IF event.target = NoNode
       THEN r.target = "document"
       ELSE \/ event.target = r.target
            \/ event.bubbles /\ contains(r.target, event.target)

\* Every live listener the event reaches runs its callback; each emit() is
\* delivered synchronously.
RECURSIVE RunListeners(_, _)
RunListeners(rs, event) ==
    IF rs = {} THEN <<>>
    ELSE LET r == CHOOSE x \in rs : \A y \in rs : x.id <= y.id
         IN Invoke(r.handler, event) \o RunListeners(rs \ {r}, event)

\* The event object after every listener it reached has run.
RECURSIVE EventAfter(_, _)
EventAfter(rs, event) ==
    IF rs = {} THEN event
    ELSE LET r == CHOOSE x \in rs : \A y \in rs : x.id <= y.id
         IN EventAfter(rs \ {r}, Touched(r.handler, event))

\* The event's kind has its listener reference filled and the event passes
\* that kind's classification, read off the event's own fields.
QualifiesOutside(event) ==
    \/ /\ event.type = "mousedown"
       /\ mouseDownListener # NoListener
       /\ event.target \in OutsideNodes
    \/ /\ event.type = "touchstart"
       /\ touchStartListener # NoListener
       /\ event.hasChangedTouches
       /\ Len(event.changedTouches) > 0
       /\ event.changedTouches[1] \in OutsideNodes
QualifiesLeave(event) ==
    /\ event.type = "mouseleave"
    /\ mouseLeaveListener # NoListener
    /\ (event.target = htmlElement \/ (event.bubbles /\ event.target \in InsideNodes))
    /\ (event.relatedTarget # NoNode \/ event.toElement # NoNode)

CountChannel(sigs, channel) ==
    Cardinality({i \in 1..Len(sigs) : sigs[i].channel = channel})

\* The counters are capped, except along the end-to-end scenario, which is
\* followed to its end.
Dispatch(event) ==
    /\ \/ interactOutsideCount < MaxCount /\ mouseLeaveCount < MaxCount
       \/ OnScript(Step("dispatchEvent", FALSE, event))
    /\ LET reached == {r \in rendererListeners : Delivered(r, event)}
           out == RunListeners(reached, event)
       IN /\ emitted' = out
          /\ interactOutsideCount' =
                 interactOutsideCount + CountChannel(out, "interactOutsideEvent")
          /\ mouseLeaveCount' = mouseLeaveCount + CountChannel(out, "mouseLeaveEvent")
          /\ lastEvent' = EventAfter(reached, event)
    /\ qualifyingOutside' = qualifyingOutside + (IF QualifiesOutside(event) THEN 1 ELSE 0)
    /\ qualifyingLeave' = qualifyingLeave + (IF QualifiesLeave(event) THEN 1 ELSE 0)
    /\ Called("dispatchEvent", FALSE, event)
    /\ UNCHANGED <<config, isInitialized, slots, rendererListeners, lifecycle, masterSwitch>>

DispatchMouseDown == \E e \in MouseDownEvents : Dispatch(e)
DispatchTouchStart == \E e \in TouchStartEvents : Dispatch(e)
DispatchMouseLeave == \E e \in MouseLeaveEvents : Dispatch(e)

Next ==
    \/ ngOnInit
    \/ ngOnDestroy
    \/ \E v \in BOOLEAN : SetIsListening(v)
    \/ \E v \in BOOLEAN : SetListenMouseDownOutside(v)
    \/ \E v \in BOOLEAN : SetListenTouchStartOutside(v)
    \/ \E v \in BOOLEAN : SetListenMouseLeave(v)
    \/ ReadCurrentState
    \/ DispatchMouseDown
    \/ DispatchTouchStart
    \/ DispatchMouseLeave

Spec == Init /\ [][Next]_vars

TypeOK ==
    /\ config \in BOOLEAN \X BOOLEAN \X BOOLEAN \X BOOLEAN
    /\ isInitialized \in BOOLEAN
    /\ lifecycle \in {"constructed", "initialized", "destroyed"}
    /\ masterSwitch \in {"initial", "off", "offTouched", "resumed"}
    /\ lastEvent \in {NoEvent} \cup MouseDownEvents \cup TouchStartEvents \cup MouseLeaveEvents
    /\ interactOutsideCount \in 0..(MaxCount + Len(Scenario))
    /\ mouseLeaveCount \in 0..(MaxCount + Len(Scenario))
    /\ lastOp \in InputSetters \cup
                   {"constructor", "ngOnInit", "ngOnDestroy", "currentState", "dispatchEvent"}
    /\ configWritten \in BOOLEAN
    /\ Len(observed) <= 1
    /\ script \in 0..OffScript
    /\ qualifyingOutside \in 0..(MaxCount + Len(Scenario))
    /\ qualifyingLeave \in 0..(MaxCount + Len(Scenario))
    /\ repeated \in BOOLEAN

\* ============================================================= properties
NoSlots == <<NoListener, NoListener, NoListener>>

\* The directive has been activated and not torn down.
Active == lifecycle = "initialized"

InteractOutsideOnce == emitted = <<Signal("interactOutsideEvent", lastEvent)>>
MouseLeaveOnce == emitted = <<Signal("mouseLeaveEvent", lastEvent)>>

\* The event passes its kind's classification, stated on the event's fields.
QualifiesMouseDown == lastEvent.type = "mousedown" /\ lastEvent.target \in OutsideNodes
QualifiesTouchStart ==
    /\ lastEvent.type = "touchstart"
    /\ lastEvent.hasChangedTouches
    /\ Len(lastEvent.changedTouches) > 0
    /\ lastEvent.changedTouches[1] \in OutsideNodes
QualifiesMouseLeave ==
    /\ lastEvent.type = "mouseleave"
    /\ lastEvent.target = "targetDiv"
    /\ (lastEvent.relatedTarget # NoNode \/ lastEvent.toElement # NoNode)

\* C1: on an active directive with isListening and listenMouseDownOutside
\* true, a mousedown on the document, the parent or a sibling emits exactly
\* one interactOutsideEvent carrying it, and a mousedown on the host, its
\* child or a deeper descendant emits nothing.
C1_MouseDownContainment ==
    (lastEvent.type = "mousedown" /\ Active /\ isListening /\ listenMouseDownOutside)
        => /\ lastEvent.target \in OutsideNodes => InteractOutsideOnce
           /\ lastEvent.target \in InsideNodes => emitted = <<>>

C1_Witness ==
    /\ Active /\ isListening /\ listenMouseDownOutside
    /\ lastEvent.type = "mousedown"
    /\ lastEvent.target = "firstSiblingDiv"
    /\ Len(emitted) = 1

\* C2: once isListening has been written false on an initialized directive,
\* no listener is live and no event of any kind emits, whatever the three
\* listen* flags are or become; once it is written true again with no flag
\* written in between, each kind whose flag is true emits exactly once per
\* qualifying event.
C2_MasterSwitch ==
    /\ masterSwitch \in {"off", "offTouched"}
          => (~isListening /\ rendererListeners = {} /\ emitted = <<>>)
    /\ (masterSwitch = "resumed" /\ Active)
          => /\ (listenMouseDownOutside /\ QualifiesMouseDown) => InteractOutsideOnce
             /\ (listenTouchStartOutside /\ QualifiesTouchStart) => InteractOutsideOnce
             /\ (listenMouseLeave /\ QualifiesMouseLeave) => MouseLeaveOnce

C2_Witness ==
    /\ masterSwitch = "resumed" /\ Active
    /\ listenTouchStartOutside /\ QualifiesTouchStart
    /\ Len(emitted) = 1

\* C3: a signal is emitted for an event only while isListening and the flag of
\* that event's kind are true; and on an active directive with isListening
\* true, a qualifying event of a kind whose flag is true emits exactly once
\* whatever the other two flags are.
C3_FlagGating ==
    /\ emitted # <<>> =>
          /\ isListening
          /\ lastEvent.type = "mousedown" => listenMouseDownOutside
          /\ lastEvent.type = "touchstart" => listenTouchStartOutside
          /\ lastEvent.type = "mouseleave" => listenMouseLeave
    /\ (Active /\ isListening) =>
          /\ (listenMouseDownOutside /\ QualifiesMouseDown) => Len(emitted) = 1
          /\ (listenTouchStartOutside /\ QualifiesTouchStart) => Len(emitted) = 1
          /\ (listenMouseLeave /\ QualifiesMouseLeave) => Len(emitted) = 1

C3_Witness ==
    /\ Active /\ isListening
    /\ ~listenMouseDownOutside /\ listenTouchStartOutside /\ ~listenMouseLeave
    /\ QualifiesTouchStart
    /\ Len(emitted) = 1

\* A subscription of a kind: its reference holds the handle of a listener
\* that is live on the right target for the right event.
Installed(ref, target, eventName) ==
    /\ ref # NoListener
    /\ \E r \in rendererListeners :
          r.id = ref /\ r.target = target /\ r.eventName = eventName
NotInstalled(ref, eventName) ==
    /\ ref = NoListener
    /\ \A r \in rendererListeners : r.eventName # eventName

\* C4 as stated: in every reachable state each kind's subscription is
\* installed if and only if isListening and the kind's flag are both true.
C4_SubscriptionsAlwaysMatchConfig ==
    /\ Installed(mouseDownListener, "document", "mousedown")
          <=> (isListening /\ listenMouseDownOutside)
    /\ Installed(touchStartListener, "document", "touchstart")
          <=> (isListening /\ listenTouchStartOutside)
    /\ Installed(mouseLeaveListener, htmlElement, "mouseleave")
          <=> (isListening /\ listenMouseLeave)

\* C4 amended: an installed subscription always has isListening and its flag
\* true; between ngOnInit and ngOnDestroy the subscription of each kind is
\* installed exactly when isListening and its flag are true; before ngOnInit
\* nothing is installed.
MatchesConfig(ref, target, eventName, flag) ==
    /\ ~NotInstalled(ref, eventName) => (isListening /\ flag)
    /\ Active => IF isListening /\ flag
                 THEN Installed(ref, target, eventName)
                 ELSE NotInstalled(ref, eventName)
    /\ ~isInitialized => NotInstalled(ref, eventName)

C4_SubscriptionsMatchConfigWhileActive ==
    /\ MatchesConfig(mouseDownListener, "document", "mousedown", listenMouseDownOutside)
    /\ MatchesConfig(touchStartListener, "document", "touchstart", listenTouchStartOutside)
    /\ MatchesConfig(mouseLeaveListener, htmlElement, "mouseleave", listenMouseLeave)

C4_Witness ==
    /\ Active /\ isListening
    /\ ~listenMouseDownOutside /\ listenMouseLeave
    /\ mouseDownListener = NoListener
    /\ Installed(mouseLeaveListener, htmlElement, "mouseleave")

\* C5: at most one listener per event name is live on the renderer, and
\* every live listener is the one its kind's reference holds.
C5_AtMostOneListenerPerKind ==
    /\ \A name \in {"mousedown", "touchstart", "mouseleave"} :
          Cardinality({r \in rendererListeners : r.eventName = name}) <= 1
    /\ \A r \in rendererListeners :
          \/ r.eventName = "mousedown" /\ r.id = mouseDownListener
          \/ r.eventName = "touchstart" /\ r.id = touchStartListener
          \/ r.eventName = "mouseleave" /\ r.id = mouseLeaveListener

C5_Witness ==
    /\ masterSwitch = "resumed"
    /\ Cardinality(rendererListeners) = 3

\* C6 as stated: once ngOnDestroy has run, the three references are empty, no
\* listener is live and no signal is emitted, whatever happens afterwards.
C6_TeardownPermanent ==
    lifecycle = "destroyed"
        => (slots = NoSlots /\ rendererListeners = {} /\ emitted = <<>>)

\* C7: before ngOnInit the three references are empty, nothing is registered
\* on the renderer and no event emits, whatever the inputs have been set to.
C7_NothingBeforeInit ==
    ~isInitialized => (slots = NoSlots /\ rendererListeners = {} /\ emitted = <<>>)

C7_Witness ==
    /\ ~isInitialized
    /\ listenTouchStartOutside /\ listenMouseLeave
    /\ QualifiesMouseDown
    /\ emitted = <<>>

\* C8: while the touchstart listener is held, a touchstart emits exactly one
\* interactOutsideEvent carrying it if changedTouches exists, is non-empty and
\* its first point's target lies outside the host, and nothing otherwise;
\* later points and the touches list play no part.
C8_FirstChangedTouchDecides ==
    (lastEvent.type = "touchstart" /\ touchStartListener # NoListener)
        => IF QualifiesTouchStart THEN InteractOutsideOnce ELSE emitted = <<>>

C8_Witness ==
    /\ touchStartListener # NoListener
    /\ lastEvent.type = "touchstart"
    /\ lastEvent.changedTouches = <<"firstSiblingDiv", "targetDiv">>
    /\ lastEvent.touches = <<"targetDiv">>
    /\ Len(emitted) = 1

C10_LeaveLocalToHost ==
    /\ (lastEvent.type = "mouseleave" /\ lastEvent.target \in {"parentDiv", "firstSiblingDiv"})
          => emitted = <<>>
    /\ (lastEvent.type = "mouseleave" /\ lastEvent.target # "targetDiv" /\ ~lastEvent.bubbles)
          => emitted = <<>>
    /\ lastEvent.type \in {"mousedown", "touchstart"}
          => \A i \in 1..Len(emitted) : emitted[i].channel # "mouseLeaveEvent"

C10_Witness ==
    /\ Active /\ isListening
    /\ listenMouseDownOutside /\ listenTouchStartOutside /\ listenMouseLeave
    /\ lastEvent.type = "mouseleave" /\ lastEvent.target = "parentDiv"
    /\ lastEvent.bubbles /\ lastEvent.toElement # NoNode
    /\ emitted = <<>>

AllFlagsTrue ==
    isListening /\ listenMouseDownOutside /\ listenTouchStartOutside /\ listenMouseLeave

\* The event names that have a live listener, and the ones the stored
\* configuration asks for.
LiveEventNames == {r.eventName : r \in rendererListeners}
WantedEventNames ==
    IF ~isListening THEN {}
    ELSE {n \in {"mousedown", "touchstart", "mouseleave"} :
            \/ n = "mousedown" /\ listenMouseDownOutside
            \/ n = "touchstart" /\ listenTouchStartOutside
            \/ n = "mouseleave" /\ listenMouseLeave}

\* C11: a currentState read after construction, before ngOnInit and before
\* any input setter, returns isListening and listenMouseDownOutside true and
\* listenTouchStartOutside and listenMouseLeave false.
C11_DefaultsAfterConstruction ==
    (lastOp = "currentState" /\ lifecycle = "constructed" /\ ~configWritten)
        => /\ Len(observed) = 1
           /\ observed[1].isListening = TRUE
           /\ observed[1].listenMouseDownOutside = TRUE
           /\ observed[1].listenTouchStartOutside = FALSE
           /\ observed[1].listenMouseLeave = FALSE

C11_Witness ==
    /\ lastOp = "currentState"
    /\ lifecycle = "constructed"
    /\ ~configWritten
    /\ Len(observed) = 1

\* C12: right after ngOnInit the listener of each kind is installed exactly
\* when isListening and the kind's flag are true in the configuration stored
\* then (values written before ngOnInit included); with all four true, three
\* listeners are live and listenersCleared is false.
C12_ActivationAppliesConfig ==
    /\ lastOp = "ngOnInit" =>
          /\ Installed(mouseDownListener, "document", "mousedown")
                <=> (isListening /\ listenMouseDownOutside)
          /\ Installed(touchStartListener, "document", "touchstart")
                <=> (isListening /\ listenTouchStartOutside)
          /\ Installed(mouseLeaveListener, htmlElement, "mouseleave")
                <=> (isListening /\ listenMouseLeave)
    /\ (Active /\ AllFlagsTrue) =>
          /\ Cardinality(rendererListeners) = 3
          /\ currentState.listenersCleared = FALSE

C12_Witness ==
    /\ lastOp = "ngOnInit"
    /\ configWritten
    /\ AllFlagsTrue
    /\ Cardinality(rendererListeners) = 3
    /\ ~currentState.listenersCleared

\* C13: on a directive that is initialized and not destroyed, the event
\* names with a live listener are none when isListening is false and
\* otherwise exactly those whose flag is true, the references agree with
\* them, and listenersCleared is true exactly when that set is empty (all
\* three flags false, or isListening false).
C13_ListenersFollowEveryUpdate ==
    Active =>
        /\ LiveEventNames = WantedEventNames
        /\ (mouseDownListener # NoListener) <=> ("mousedown" \in WantedEventNames)
        /\ (touchStartListener # NoListener) <=> ("touchstart" \in WantedEventNames)
        /\ (mouseLeaveListener # NoListener) <=> ("mouseleave" \in WantedEventNames)
        /\ currentState.listenersCleared <=> (WantedEventNames = {})
        /\ (isListening /\ ~listenMouseDownOutside /\ ~listenTouchStartOutside
              /\ ~listenMouseLeave) => currentState.listenersCleared
        /\ (~isListening /\ listenMouseDownOutside /\ listenTouchStartOutside
              /\ listenMouseLeave) => currentState.listenersCleared

C13_Witness ==
    /\ Active
    /\ lastOp = "isListening"
    /\ ~isListening /\ listenMouseDownOutside /\ listenTouchStartOutside /\ listenMouseLeave
    /\ currentState.listenersCleared
    /\ rendererListeners = {}

\* C14: a currentState read returns the four stored values as they are and
\* listenersCleared true exactly when the three references are all empty,
\* and the read changes no field, listener or counter.
C14_CurrentStateReflectsFields ==
    /\ [](lastOp = "currentState" =>
            observed = << [isListening |-> isListening,
                           listenMouseDownOutside |-> listenMouseDownOutside,
                           listenTouchStartOutside |-> listenTouchStartOutside,
                           listenMouseLeave |-> listenMouseLeave,
                           listenersCleared |-> (slots = NoSlots)] >>)
    /\ [][lastOp' = "currentState" =>
            UNCHANGED <<config, isInitialized, slots, rendererListeners, lifecycle, counts>>]_vars

C14_Witness ==
    /\ lastOp = "currentState"
    /\ Len(observed) = 1
    /\ ~observed[1].listenersCleared
    /\ touchStartListener = NoListener
    /\ mouseLeaveListener # NoListener

\* C15: along the end-to-end scenario the counts are: after the five
\* mousedowns (ancestor, sibling, host, descendant, sibling) 3; after the
\* touchstart on the sibling 4; after the leave towards the sibling, leave
\* count 1; after isListening = false and a mousedown on the sibling still
\* 4; after ngOnDestroy and a mousedown on the sibling still 4, with
\* listenersCleared true.
C15_EndToEnd ==
    /\ script = 3 => (AllFlagsTrue /\ Cardinality(rendererListeners) = 3)
    /\ script = 4 => interactOutsideCount = 1
    /\ script \in 5..7 => interactOutsideCount = 2
    /\ script = 8 => interactOutsideCount = 3
    /\ script = 9 => (interactOutsideCount = 4 /\ mouseLeaveCount = 0)
    /\ script \in 10..14 => (interactOutsideCount = 4 /\ mouseLeaveCount = 1)
    /\ script = 14 => currentState.listenersCleared

C15_Witness ==
    /\ script = Len(Scenario)
    /\ lifecycle = "destroyed"
    /\ interactOutsideCount = 4
    /\ mouseLeaveCount = 1

\* A mousedown without target, a touchstart whose changedTouches is missing
\* or empty, or whose first changed point has no target.
Malformed(event) ==
    \/ event.type = "mousedown" /\ event.target = NoNode
    \/ /\ event.type = "touchstart"
       /\ \/ ~event.hasChangedTouches
          \/ Len(event.changedTouches) = 0
          \/ event.changedTouches[1] = NoNode

\* C16: a malformed event is dispatched to completion with no signal
\* emitted and no counter moved, and its dispatch leaves the four stored
\* values, the three references and the live listeners as they were.
C16_MalformedEventsIgnored ==
    /\ [](Malformed(lastEvent) => emitted = <<>>)
    /\ [][Malformed(lastEvent') =>
            UNCHANGED <<config, isInitialized, slots, rendererListeners, counts>>]_vars

C16_Witness ==
    /\ touchStartListener # NoListener
    /\ lastEvent.type = "touchstart"
    /\ lastEvent.changedTouches = <<NoNode, "firstSiblingDiv">>
    /\ emitted = <<>>

\* C17: after its dispatch an event is neither default-prevented nor
\* propagation-stopped, whether or not a signal was emitted for it, and the
\* dispatch leaves the four stored values, isInitialized, the three
\* references and the live listeners as they were.
C17_PurelyObservational ==
    /\ [](~lastEvent.defaultPrevented /\ ~lastEvent.propagationStopped)
    /\ [][lastOp' = "dispatchEvent" =>
            UNCHANGED <<config, isInitialized, slots, rendererListeners>>]_vars

C17_Witness ==
    /\ lastEvent.type = "touchstart"
    /\ Len(emitted) = 1
    /\ ~lastEvent.defaultPrevented
    /\ ~lastEvent.propagationStopped

\* C18: every dispatched event emits exactly one signal in its own step if
\* its kind's listener is held and it passes the kind's classification, and
\* none otherwise; so interactOutsideCount is the number of qualifying
\* mousedown and touchstart events dispatched so far and mouseLeaveCount the
\* number of qualifying mouseleave events.
C18_OneSignalPerQualifyingEvent ==
    /\ lastOp = "dispatchEvent" =>
          Len(emitted) = IF QualifiesOutside(lastEvent) \/ QualifiesLeave(lastEvent)
                         THEN 1 ELSE 0
    /\ lastOp # "dispatchEvent" => emitted = <<>>
    /\ interactOutsideCount = qualifyingOutside
    /\ mouseLeaveCount = qualifyingLeave

C18_Witness ==
    /\ interactOutsideCount = 2
    /\ qualifyingOutside = 2
    /\ mouseLeaveCount = 1
    /\ qualifyingLeave = 1
    /\ lastOp = "dispatchEvent"
    /\ lastEvent.type = "mousedown"
    /\ Len(emitted) = 1

\* C19: every signal emitted for a dispatched event carries that event
\* itself, on interactOutsideEvent for a mousedown or a touchstart (the
\* whole touch event, with all its points) and on mouseLeaveEvent for a
\* mouseleave.
C19_SignalCarriesEvent ==
    \A i \in 1..Len(emitted) :
        /\ emitted[i].payload = lastEvent
        /\ emitted[i].channel =
              IF lastEvent.type = "mouseleave" THEN "mouseLeaveEvent"
              ELSE "interactOutsideEvent"
        /\ lastEvent.type \in {"mousedown", "touchstart", "mouseleave"}

C19_Witness ==
    /\ Len(emitted) = 1
    /\ emitted[1].payload.type = "touchstart"
    /\ Len(emitted[1].payload.changedTouches) = 2
    /\ emitted[1].payload = lastEvent

\* C20: whenever an input setter returns on an initialized, not destroyed
\* directive, the event names with a live listener and the filled references
\* are determined by the four values now stored, whatever was stored or
\* installed before the call.
C20_OrderIndependence ==
    [][(lifecycle' = "initialized" /\ lastOp' \in InputSetters) =>
          /\ LiveEventNames' = WantedEventNames'
          /\ Cardinality(rendererListeners') = Cardinality(WantedEventNames')
          /\ (mouseDownListener' # NoListener) <=> ("mousedown" \in WantedEventNames')
          /\ (touchStartListener' # NoListener) <=> ("touchstart" \in WantedEventNames')
          /\ (mouseLeaveListener' # NoListener) <=> ("mouseleave" \in WantedEventNames')]_vars

C20_Witness ==
    /\ Active
    /\ masterSwitch = "resumed"
    /\ lastOp = "isListening"
    /\ LiveEventNames = {"touchstart", "mouseleave"}

\* What is live on the renderer, without the handles' identities.
LiveHandlers(registry) ==
    {[target |-> r.target, eventName |-> r.eventName, handler |-> r.handler] : r \in registry}

AllEvents == MouseDownEvents \cup TouchStartEvents \cup MouseLeaveEvents

\* The signals a dispatch of the event would emit with this registry.
SignalsFor(registry, event) ==
    RunListeners({r \in registry : Delivered(r, event)}, event)

SlotsFilled == <<mouseDownListener # NoListener, touchStartListener # NoListener,
                 mouseLeaveListener # NoListener>>

\* C21: on an initialized, not destroyed directive, an input setter given
\* the value its field already holds leaves the four stored values, the
\* live handlers (which event, on which target), their number and the filled
\* references as they were, so that every event would emit after the call
\* exactly the signals it would have emitted before it.
C21_RedundantUpdateNoEffect ==
    [][(lifecycle = "initialized" /\ lastOp' \in InputSetters /\ repeated') =>
          /\ config' = config
          /\ isInitialized' = isInitialized
          /\ LiveHandlers(rendererListeners') = LiveHandlers(rendererListeners)
          /\ Cardinality(rendererListeners') = Cardinality(rendererListeners)
          /\ SlotsFilled' = SlotsFilled
          /\ \A e \in AllEvents :
                SignalsFor(rendererListeners', e) = SignalsFor(rendererListeners, e)]_vars

C21_Witness ==
    /\ Active
    /\ repeated
    /\ lastOp = "listenMouseLeave"
    /\ isListening /\ listenMouseLeave /\ ~listenTouchStartOutside
    /\ mouseLeaveListener # NoListener
    /\ Cardinality(rendererListeners) = 2

\* C22: ngOnDestroy can be called in every state (before ngOnInit, with
\* nothing installed, or again); it leaves the three references empty and
\* nothing registered, and leaves the stored values and isInitialized as
\* they were; an ngOnDestroy directly after an ngOnDestroy changes no
\* field, listener or counter.
C22_TeardownIdempotent ==
    /\ [](lastOp = "ngOnDestroy" => (slots = NoSlots /\ rendererListeners = {}))
    /\ [][lastOp' = "ngOnDestroy" => UNCHANGED <<config, isInitialized, counts>>]_vars
    /\ [][(lastOp = "ngOnDestroy" /\ lastOp' = "ngOnDestroy") =>
            UNCHANGED <<config, isInitialized, slots, rendererListeners, lifecycle, counts>>]_vars
    /\ [](ENABLED ngOnDestroy)

C22_Witness ==
    /\ lastOp = "ngOnDestroy"
    /\ repeated
    /\ isInitialized
    /\ isListening /\ listenMouseLeave
    /\ slots = NoSlots
    /\ rendererListeners = {}

\* The handles the three references hold.
HeldHandles == {mouseDownListener, touchStartListener, mouseLeaveListener} \ {NoListener}

\* C23: the listeners live on the renderer are exactly those whose handles
\* the three references hold, one listener per held handle: no listener is
\* live whose handle was dropped without being called, and no reference keeps
\* a handle that was already called; every step that clears calls every
\* handle held before it, so none of the old listeners outlives the call
\* except as a newly obtained one.
C23_HandleOwnership ==
    /\ []({r.id : r \in rendererListeners} = HeldHandles)
    /\ [](Cardinality(rendererListeners) = Cardinality(HeldHandles))
    /\ [](Cardinality(HeldHandles) =
             Cardinality({i \in 1..3 : slots[i] # NoListener}))
    /\ [][lastOp' = "ngOnDestroy" => (HeldHandles' = {} /\ rendererListeners' = {})]_vars
    /\ [][(lastOp' \in InputSetters \cup {"ngOnInit"} /\ isInitialized') =>
            Cardinality(rendererListeners') = Cardinality(WantedEventNames')]_vars

C23_Witness ==
    /\ Active
    /\ masterSwitch = "resumed"
    /\ lastOp = "isListening"
    /\ mouseDownListener = NoListener
    /\ {r.id : r \in rendererListeners} = {touchStartListener, mouseLeaveListener}
    /\ Cardinality(rendererListeners) = 2

\* C24 as stated: while isListening and listenMouseLeave are true on an
\* active directive, every mouseleave delivered to the host (dispatched on
\* it, or bubbling up to it from inside) emits exactly one mouseLeaveEvent.
C24_EveryDeliveredLeaveEmits ==
    (/\ lastEvent.type = "mouseleave"
     /\ Active /\ isListening /\ listenMouseLeave
     /\ \/ lastEvent.target = "targetDiv"
        \/ lastEvent.bubbles /\ lastEvent.target \in InsideNodes)
        => MouseLeaveOnce

\* The other three stored values, for each input setter.
OtherFields(op) ==
    CASE op = "isListening" ->
            <<listenMouseDownOutside, listenTouchStartOutside, listenMouseLeave>>
      [] op = "listenMouseDownOutside" ->
            <<isListening, listenTouchStartOutside, listenMouseLeave>>
      [] op = "listenTouchStartOutside" ->
            <<isListening, listenMouseDownOutside, listenMouseLeave>>
      [] op = "listenMouseLeave" ->
            <<isListening, listenMouseDownOutside, listenTouchStartOutside>>

\* C25: an input setter leaves the other three stored values as they were,
\* and its own field changed exactly when it was given a value other than
\* the stored one; wherever currentState can be read (which is everywhere,
\* and the read changes nothing) each of the four setters can be called with
\* true and with false, so that each of the 16 combinations of the four
\* values is reached and every call completes.
C25_SettersWriteOwnFieldOnly ==
    /\ [][\A op \in InputSetters :
            lastOp' = op =>
              /\ OtherFields(op)' = OtherFields(op)
              /\ Stored(op)' = IF repeated' THEN Stored(op) ELSE ~Stored(op)]_vars
    /\ [](lastOp = "currentState" => \A v \in BOOLEAN :
            /\ ENABLED SetIsListening(v)
            /\ ENABLED SetListenMouseDownOutside(v)
            /\ ENABLED SetListenTouchStartOutside(v)
            /\ ENABLED SetListenMouseLeave(v))
    /\ [](config \in BOOLEAN \X BOOLEAN \X BOOLEAN \X BOOLEAN)

C25_Witness ==
    /\ Active
    /\ lastOp = "listenMouseLeave"
    /\ ~repeated
    /\ config = <<FALSE, FALSE, TRUE, TRUE>>
    /\ rendererListeners = {}

\* C26: only an input setter changes any of the four stored values:
\* ngOnInit, ngOnDestroy (with the updateListeners and clearListeners they
\* run), a currentState read and an event dispatch leave all four as they
\* were; so a currentState read after ngOnDestroy returns the four values
\* as last written, with listenersCleared as the references stand.
C26_OnlySettersChangeConfig ==
    /\ [][lastOp' \notin InputSetters => config' = config]_vars
    /\ [][config' # config =>
            \E op \in InputSetters :
                lastOp' = op /\ ~repeated' /\ OtherFields(op)' = OtherFields(op)]_vars
    /\ []((lastOp = "currentState" /\ lifecycle = "destroyed") =>
            /\ Len(observed) = 1
            /\ <<observed[1].isListening, observed[1].listenMouseDownOutside,
                 observed[1].listenTouchStartOutside, observed[1].listenMouseLeave>> = config)

C26_Witness ==
    /\ lastOp = "currentState"
    /\ lifecycle = "destroyed"
    /\ isInitialized
    /\ slots = NoSlots
    /\ Len(observed) = 1
    /\ observed[1].isListening /\ ~observed[1].listenMouseDownOutside
    /\ observed[1].listenTouchStartOutside /\ observed[1].listenMouseLeave
    /\ observed[1].listenersCleared
====
